---- MODULE Spec2Model ----
(***************************************************************************)
(* Model of DataRegistry (packages/dataregistry/src/dataregistry.ts): the   *)
(* facade that composes a dataset store and a converter graph.  The facade  *)
(* is translated from dataregistry.ts; the collaborators it imports         *)
(* (./datasets, ./converters, ./resolvers, ./viewers) are modelled from     *)
(* their contracts in spec.md section 6.                                    *)
(***************************************************************************)
EXTENDS Bags, FiniteSets, Integers, Naturals, Sequences, TLC

VARIABLES
    converters,     \* this.converters: the registered converters
    datasets,       \* this.data: the published datasets
    publishCalls,   \* history: number of data.publish invocations per dataset
    calls,          \* the convertByURL / viewURL invocations and their position
    registerCalls,  \* history: per URL, what each registerURL call returned
    ret             \* what the last query returned

vars == <<converters, datasets, publishCalls, calls, registerCalls, ret>>

----------------------------------------------------------------------------
(* Bounds *)

MaxCalls == 2       \* convertByURL / viewURL invocations in one behaviour
MaxRegister == 2    \* registerURL invocations in one behaviour

Calls == 1..MaxCalls

----------------------------------------------------------------------------
(* Values *)

URLs == {"file:///a.csv", "file:///b.dat"}

\* viewer labels: "Table" has a viewer among the converters, "Grid" has none
Labels == {"Table", "Grid"}

Null == "<null>"

\* ./resolvers: the mime type of a dataset that is known only by its URL.
\* hasConversions passes the imported value itself as the seed list,
\* [resolveMimeType], where possibleMimeTypesForURL passes mime types: it
\* is one mime type, the same for every URL.
resolveMimeType == "application/x.jupyter.resolve"

\* ./viewers: the reversible encoding of a viewer label as a mime type
viewerMimeTypePrefix == "application/x.jupyter.viewer; label="

createViewerMimeType(label) == viewerMimeTypePrefix \o label

extractViewerLabel(mimeType) ==
    IF /\ Len(mimeType) >= Len(viewerMimeTypePrefix)
       /\ SubSeq(mimeType, 1, Len(viewerMimeTypePrefix)) = viewerMimeTypePrefix
    THEN SubSeq(mimeType, Len(viewerMimeTypePrefix) + 1, Len(mimeType))
    ELSE Null

\* the mime types that datasets and converters are registered with
MimeTypes ==
    {resolveMimeType, "text/csv", "application/json",
     createViewerMimeType("Table")}

\* ./datasets: a dataset is identified by its URL and its mime type
Dataset(mimeType, url) == [url |-> url, mimeType |-> mimeType]

AllDatasets == {Dataset(m, u) : m \in MimeTypes, u \in URLs}

\* the value of a variable that was declared and never assigned
Undefined == [url |-> "<undefined>", mimeType |-> "<undefined>"]

\* the value of a promise that has not settled
Pending == [url |-> "<pending>", mimeType |-> "<pending>"]

\* ./resolvers: URL -> the dataset that stands for the bare URL
resolveDataSet(url) == Dataset(resolveMimeType, url)

\* ./converters: a converter turns one mime type into another, for the
\* URLs it applies to
Converter(from, to, urls) == [from |-> from, to |-> to, urls |-> urls]

AllConverters ==
    { Converter(resolveMimeType, "text/csv", {"file:///a.csv"}),
      Converter("text/csv", "application/json", URLs),
      Converter("application/json", createViewerMimeType("Table"), URLs) }

----------------------------------------------------------------------------
(* Dataset store (./datasets) *)

contains(dataset) == dataset \in datasets

filterByURL(url) == {d \in datasets : d.url = url}

mimeTypesForURL(url) == {d.mimeType : d \in filterByURL(url)}

\* the store after data.publish(dataset)
publish(dataset) == datasets \cup {dataset}

----------------------------------------------------------------------------
(* Converter graph (./converters) *)

Applicable(url) == {cv \in converters : url \in cv.urls}

OneStep(url, mimeTypes) ==
    mimeTypes \cup {cv.to : cv \in {c \in Applicable(url) : c.from \in mimeTypes}}

RECURSIVE listTargetMimeTypes(_, _)
listTargetMimeTypes(url, seedMimeTypes) ==
    IF OneStep(url, seedMimeTypes) = seedMimeTypes
    THEN seedMimeTypes
    ELSE listTargetMimeTypes(url, OneStep(url, seedMimeTypes))

\* the conversion paths of exactly n steps that start at one of mimeTypes
RECURSIVE Paths(_, _, _)
Paths(url, mimeTypes, n) ==
    IF n = 0
    THEN {<<m>> : m \in mimeTypes}
    ELSE UNION { {Append(p, cv.to) :
                    cv \in {c \in Applicable(url) : c.from = p[Len(p)]}} :
                 p \in Paths(url, mimeTypes, n - 1) }

PathsTo(url, mimeTypes, target, n) ==
    {p \in Paths(url, mimeTypes, n) : p[Len(p)] = target}

\* a shortest conversion path from the source mime types to the target;
\* <<>> when there is none
ConversionChain(url, mimeTypes, target) ==
    IF target \notin listTargetMimeTypes(url, mimeTypes)
    THEN <<>>
    ELSE LET n == CHOOSE k \in 0..Cardinality(MimeTypes) :
                    /\ PathsTo(url, mimeTypes, target, k) # {}
                    /\ \A j \in 0..(k - 1) : PathsTo(url, mimeTypes, target, j) = {}
         IN  CHOOSE p \in PathsTo(url, mimeTypes, target, n) : TRUE

\* the datasets the lazy sequence of converters.convert yields, in order:
\* one per conversion step; the existing dataset alone when the target is
\* among the sources; none when the target cannot be reached
convert(url, sourceDatasets, targetMimeType) ==
    LET chain == ConversionChain(url, {d.mimeType : d \in sourceDatasets},
                                 targetMimeType)
    IN  IF chain = <<>> THEN <<>>
        ELSE IF Len(chain) = 1 THEN <<Dataset(targetMimeType, url)>>
        ELSE [i \in 1..(Len(chain) - 1) |-> Dataset(chain[i + 1], url)]

----------------------------------------------------------------------------
(* Facade queries (dataregistry.ts) *)

\* variant: seeded from what the store holds for the URL
hasConversionsFromStore(url) ==
    Cardinality(listTargetMimeTypes(url, mimeTypesForURL(url))) > 1

hasConversions(url) ==
    Cardinality(listTargetMimeTypes(url, {resolveMimeType})) > 1

\* variant: seeded like hasConversions
possibleMimeTypesFromResolveType(url) ==
    listTargetMimeTypes(url, {resolveMimeType})

\* variant: the resolve mime type is always among the seeds
possibleMimeTypesWithResolveType(url) ==
    listTargetMimeTypes(url, mimeTypesForURL(url) \cup {resolveMimeType})

possibleMimeTypesForURL(url) ==
    listTargetMimeTypes(url, mimeTypesForURL(url))

\* variant: without .filter(label => label !== null)
viewersForURLUnfiltered(url) ==
    {extractViewerLabel(m) : m \in possibleMimeTypesForURL(url)}

viewersForURL(url) ==
    {extractViewerLabel(m) : m \in possibleMimeTypesForURL(url)} \ {Null}

----------------------------------------------------------------------------
(* State *)

IdleCall ==
    [kind |-> "none", url |-> "", target |-> "", pc |-> "idle",
     seq |-> <<>>, chain |-> <<>>, reachable |-> FALSE,
     asked |-> 0, finalDataSet |-> Undefined,
     result |-> Pending, outcome |-> "pending", error |-> "none",
           thrown |-> "none",
     published |-> {}, accessor |-> 0, accessorDone |-> 0]

NoQuery == [op |-> "none", url |-> "", val |-> {}]

RECURSIVE RegisterCount(_)
RegisterCount(urls) ==
    IF urls = {} THEN 0
    ELSE LET u == CHOOSE x \in urls : TRUE
         IN  Len(registerCalls[u]) + RegisterCount(urls \ {u})

Init ==
    /\ converters = AllConverters
    /\ datasets = {}
    /\ publishCalls = [d \in AllDatasets |-> 0]
    /\ calls = [c \in Calls |-> IdleCall]
    /\ registerCalls = [u \in URLs |-> <<>>]
    /\ ret = NoQuery

----------------------------------------------------------------------------
(* registerURL *)

\* variant: publish without asking the store
registerURLUnchecked(url) ==
    LET dataset == resolveDataSet(url)
    IN  /\ RegisterCount(URLs) < MaxRegister
        /\ datasets' = publish(dataset)
        /\ publishCalls' = [publishCalls EXCEPT ![dataset] = @ + 1]
        /\ registerCalls' = [registerCalls EXCEPT ![url] = Append(@, "handle")]
        /\ UNCHANGED <<converters, calls, ret>>

\* variant: registering also starts the first conversion of the dataset
registerURLConverting(url) ==
    LET dataset == resolveDataSet(url)
        next == {Dataset(m, url) : m \in OneStep(url, {resolveMimeType})}
    IN  /\ RegisterCount(URLs) < MaxRegister
        /\ IF contains(dataset)
           THEN /\ registerCalls' =
                      [registerCalls EXCEPT ![url] = Append(@, "null")]
                /\ UNCHANGED <<datasets, publishCalls>>
           ELSE /\ datasets' = datasets \cup next
                /\ publishCalls' = [d \in AllDatasets |->
                      IF d \in next \ datasets THEN publishCalls[d] + 1
                      ELSE publishCalls[d]]
                /\ registerCalls' =
                      [registerCalls EXCEPT ![url] = Append(@, "handle")]
        /\ UNCHANGED <<converters, calls, ret>>

registerURL(url) ==
    LET dataset == resolveDataSet(url)
    IN  /\ RegisterCount(URLs) < MaxRegister
        /\ IF contains(dataset)
           THEN /\ registerCalls' =
                      [registerCalls EXCEPT ![url] = Append(@, "null")]
                /\ UNCHANGED <<datasets, publishCalls>>
           ELSE /\ datasets' = publish(dataset)
                /\ publishCalls' = [publishCalls EXCEPT ![dataset] = @ + 1]
                /\ registerCalls' =
                      [registerCalls EXCEPT ![url] = Append(@, "handle")]
        /\ UNCHANGED <<converters, calls, ret>>

----------------------------------------------------------------------------
(* convertByURL *)

\* the call evaluates data.filterByURL(url), obtains the lazy sequence and
\* requests its first element
StartCall(c, kind, url, targetMimeType) ==
    /\ calls[c].pc = "idle"
    /\ c > 1 => calls[c - 1].pc # "idle"
    /\ calls' = [calls EXCEPT ![c] =
          [kind |-> kind, url |-> url, target |-> targetMimeType,
           pc |-> "next",
           seq |-> convert(url, filterByURL(url), targetMimeType),
           chain |-> ConversionChain(url, mimeTypesForURL(url), targetMimeType),
           reachable |-> targetMimeType \in possibleMimeTypesForURL(url),
           asked |-> 1, finalDataSet |-> Undefined,
           result |-> Pending, outcome |-> "pending", error |-> "none",
           thrown |-> "none",
           published |-> {}, accessor |-> 0, accessorDone |-> 0]]
    /\ UNCHANGED <<converters, datasets, publishCalls, registerCalls, ret>>

convertByURL(c, url, targetMimeType) ==
    StartCall(c, "convert", url, targetMimeType)

\* variant: publish without asking the store
ShouldPublishAlways(c, dataset) == TRUE

\* variant: publish only the dataset of the target mime type
ShouldPublishTargetOnly(c, dataset) ==
    ~contains(dataset) /\ dataset.mimeType = calls[c].target

\* variant: leave the publishing to another pending call for the same target
ShouldPublishUnlessShared(c, dataset) ==
    /\ ~contains(dataset)
    /\ ~\E k \in Calls \ {c} :
            /\ calls[k].pc = "next"
            /\ calls[k].url = calls[c].url
            /\ calls[k].target = calls[c].target

\* if (!this.data.contains(dataset))
ShouldPublish(c, dataset) == ~contains(dataset)

\* variant: keep the first dataset of the sequence
FinalDataSetFirst(c, dataset) ==
    IF calls[c].finalDataSet = Undefined THEN dataset ELSE calls[c].finalDataSet

\* finalDataSet = dataset
FinalDataSet(c, dataset) == dataset

\* variant: the next element is requested before the current one is
\* published, so that publishing runs one element behind
ConvertBodyPrefetch(c) ==
    LET dataset == calls[c].seq[calls[c].asked]
        late == calls[c].finalDataSet
    IN  /\ calls[c].pc = "next"
        /\ calls[c].asked <= Len(calls[c].seq)
        /\ IF late # Undefined /\ ~contains(late)
           THEN /\ datasets' = publish(late)
                /\ publishCalls' = [publishCalls EXCEPT ![late] = @ + 1]
                /\ calls' = [calls EXCEPT
                      ![c].finalDataSet = dataset,
                      ![c].published = @ \cup {late},
                      ![c].asked = @ + 1]
           ELSE /\ calls' = [calls EXCEPT
                      ![c].finalDataSet = dataset,
                      ![c].asked = @ + 1]
                /\ UNCHANGED <<datasets, publishCalls>>
        /\ UNCHANGED <<converters, registerCalls, ret>>

\* variant: the handle of the previous intermediate dataset is disposed
\* when the next dataset arrives
ConvertBodyDisposing(c) ==
    LET dataset == calls[c].seq[calls[c].asked]
        previous == calls[c].finalDataSet
    IN  /\ calls[c].pc = "next"
        /\ calls[c].asked <= Len(calls[c].seq)
        /\ datasets' = (datasets \ (calls[c].published \cap {previous}))
                            \cup {dataset}
        /\ publishCalls' = IF contains(dataset) THEN publishCalls
                           ELSE [publishCalls EXCEPT ![dataset] = @ + 1]
        /\ calls' = [calls EXCEPT
              ![c].finalDataSet = dataset,
              ![c].published = IF contains(dataset) THEN @ ELSE @ \cup {dataset},
              ![c].asked = @ + 1]
        /\ UNCHANGED <<converters, registerCalls, ret>>

\* One turn of the for-await loop: the element the call has asked for
\* arrives, the loop body runs on it, and the next element is asked for.
\* The call touches nothing shared between the arrival and the body, and
\* the body up to the next request is one synchronous stretch.
ConvertBody(c) ==
    LET dataset == calls[c].seq[calls[c].asked]
    IN  /\ calls[c].pc = "next"
        /\ calls[c].asked <= Len(calls[c].seq)
        /\ IF ShouldPublish(c, dataset)
           THEN /\ datasets' = publish(dataset)
                /\ publishCalls' = [publishCalls EXCEPT ![dataset] = @ + 1]
                /\ calls' = [calls EXCEPT
                      ![c].finalDataSet = FinalDataSet(c, dataset),
                      ![c].published = @ \cup {dataset},
                      ![c].asked = @ + 1]
           ELSE /\ calls' = [calls EXCEPT
                      ![c].finalDataSet = FinalDataSet(c, dataset),
                      ![c].asked = @ + 1]
                /\ UNCHANGED <<datasets, publishCalls>>
        /\ UNCHANGED <<converters, registerCalls, ret>>

\* variant: return as soon as a dataset has been produced
ConvertReturnEarly(c) ==
    /\ calls[c].pc = "next"
    /\ \/ calls[c].asked = Len(calls[c].seq) + 1
       \/ calls[c].finalDataSet # Undefined
    /\ calls' = [calls EXCEPT
          ![c].result = calls[c].finalDataSet,
          ![c].pc = IF calls[c].kind = "view" THEN "converted" ELSE "done",
          ![c].outcome = IF calls[c].kind = "view" THEN "pending" ELSE "returned"]
    /\ UNCHANGED <<converters, datasets, publishCalls, registerCalls, ret>>

\* the sequence is exhausted: return finalDataSet!
ConvertReturn(c) ==
    /\ calls[c].pc = "next"
    /\ calls[c].asked = Len(calls[c].seq) + 1
    /\ calls' = [calls EXCEPT
          ![c].result = calls[c].finalDataSet,
          ![c].pc = IF calls[c].kind = "view" THEN "converted" ELSE "done",
          ![c].outcome = IF calls[c].kind = "view" THEN "pending" ELSE "returned"]
    /\ UNCHANGED <<converters, datasets, publishCalls, registerCalls, ret>>

----------------------------------------------------------------------------
(* Failures of the collaborators *)

\* what a converter or the store can throw
Errors == {"ConverterError", "StoreUnavailable"}

\* what the payload accessor of a viewer dataset can throw
ViewerError == "ViewerError"

\* convertByURL(url, targetMimeType) fails when it is called: evaluating the
\* head of the loop, data.filterByURL(url) throws StoreUnavailable, or
\* converters.convert(...) itself throws ConverterError (a converter graph
\* whose convert is not a lazy generator).  The async function has not
\* reached its first await, and its promise is rejected at once: no
\* sequence has been obtained and nothing has been requested.
convertByURLThrows(c, url, targetMimeType, e) ==
    /\ calls[c].pc = "idle"
    /\ c > 1 => calls[c - 1].pc # "idle"
    /\ calls' = [calls EXCEPT ![c] =
          [kind |-> "convert", url |-> url, target |-> targetMimeType,
           pc |-> "done",
           seq |-> <<>>, chain |-> <<>>,
           reachable |-> targetMimeType \in possibleMimeTypesForURL(url),
           asked |-> 0, finalDataSet |-> Undefined,
           result |-> Pending, outcome |-> "raised",
           error |-> e, thrown |-> e,
           published |-> {}, accessor |-> 0, accessorDone |-> 0]]
    /\ UNCHANGED <<converters, datasets, publishCalls, registerCalls, ret>>

\* variant: the error is caught and reported as an unreachable target
CollaboratorThrowsTranslated(c, e) ==
    /\ calls[c].pc = "next"
    /\ e = "StoreUnavailable" => calls[c].asked <= Len(calls[c].seq)
    /\ calls' = [calls EXCEPT
          ![c].thrown = e,
          ![c].error = "UnreachableTarget",
          ![c].outcome = "raised",
          ![c].pc = "done"]
    /\ UNCHANGED <<converters, datasets, publishCalls, registerCalls, ret>>

\* convertByURL has no try/catch.
\* ConverterError: the request the call is waiting on is rejected, whichever
\* request it is (also the one that would have ended the sequence, and the
\* first one of a sequence that has no element); for-await does not close
\* a sequence that failed, and the call fails with what was thrown.
\* StoreUnavailable: the element arrives, finalDataSet is assigned, and
\* data.contains or data.publish throws in the loop body; nothing is
\* published.  for-await then calls the sequence's return() and awaits it:
\* the call stays pending until CloseReturns.
CollaboratorThrows(c, e) ==
    /\ calls[c].pc = "next"
    /\ e = "StoreUnavailable" => calls[c].asked <= Len(calls[c].seq)
    /\ IF e = "StoreUnavailable"
       THEN calls' = [calls EXCEPT
               ![c].thrown = e,
               ![c].finalDataSet = calls[c].seq[calls[c].asked],
               ![c].pc = "closing"]
       ELSE calls' = [calls EXCEPT
               ![c].thrown = e,
               ![c].error = e,
               ![c].outcome = "raised",
               ![c].pc = "done"]
    /\ UNCHANGED <<converters, datasets, publishCalls, registerCalls, ret>>

\* the sequence's return() has settled: the call fails with what the loop
\* body threw.  A return() that never settles leaves the call pending.
CloseReturns(c) ==
    /\ calls[c].pc = "closing"
    /\ calls' = [calls EXCEPT
          ![c].error = calls[c].thrown,
          ![c].outcome = "raised",
          ![c].pc = "done"]
    /\ UNCHANGED <<converters, datasets, publishCalls, registerCalls, ret>>

\* the caller abandons the pending call: the sequence is not resumed
Abandon(c) ==
    /\ calls[c].pc = "next"
    /\ calls' = [calls EXCEPT ![c].outcome = "abandoned", ![c].pc = "done"]
    /\ UNCHANGED <<converters, datasets, publishCalls, registerCalls, ret>>

----------------------------------------------------------------------------
(* viewURL *)

viewURL(c, url, label) ==
    StartCall(c, "view", url, createViewerMimeType(label))

\* variant: viewer.data() without await
ViewInvokeNoAwait(c) ==
    /\ calls[c].pc = "converted"
    /\ IF calls[c].result = Undefined
       THEN calls' = [calls EXCEPT ![c].pc = "done", ![c].outcome = "raised",
                                   ![c].error = "TypeError"]
       ELSE calls' = [calls EXCEPT ![c].pc = "done", ![c].outcome = "returned",
                                   ![c].accessor = @ + 1]
    /\ UNCHANGED <<converters, datasets, publishCalls, registerCalls, ret>>

\* viewer.data(): reading a property of undefined throws a TypeError
ViewInvoke(c) ==
    /\ calls[c].pc = "converted"
    /\ IF calls[c].result = Undefined
       THEN calls' = [calls EXCEPT ![c].pc = "done", ![c].outcome = "raised",
                                   ![c].error = "TypeError"]
       ELSE calls' = [calls EXCEPT ![c].pc = "viewing", ![c].accessor = @ + 1]
    /\ UNCHANGED <<converters, datasets, publishCalls, registerCalls, ret>>

\* the promise returned by viewer.data() resolves; accessorDone counts the
\* accessor promises that have settled
ViewFinish(c) ==
    /\ calls[c].pc = "viewing"
    /\ calls' = [calls EXCEPT ![c].pc = "done", ![c].outcome = "returned",
                               ![c].accessorDone = @ + 1]
    /\ UNCHANGED <<converters, datasets, publishCalls, registerCalls, ret>>

\* the promise returned by viewer.data() is rejected: viewURL has no
\* try/catch and fails with what the accessor threw
ViewFails(c) ==
    /\ calls[c].pc = "viewing"
    /\ calls' = [calls EXCEPT ![c].pc = "done", ![c].outcome = "raised",
                               ![c].error = ViewerError,
                               ![c].thrown = ViewerError,
                               ![c].accessorDone = @ + 1]
    /\ UNCHANGED <<converters, datasets, publishCalls, registerCalls, ret>>

----------------------------------------------------------------------------
(* The queries, as operations *)

QueryHasConversions(url) ==
    /\ ret' = [op |-> "hasConversions", url |-> url, val |-> hasConversions(url)]
    /\ UNCHANGED <<converters, datasets, publishCalls, calls, registerCalls>>

\* variant: the query registers the URL before it answers
QueryPossibleMimeTypesRegistering(url) ==
    /\ ret' = [op |-> "possibleMimeTypesForURL", url |-> url,
               val |-> possibleMimeTypesForURL(url)]
    /\ datasets' = publish(resolveDataSet(url))
    /\ publishCalls' = IF contains(resolveDataSet(url)) THEN publishCalls
                       ELSE [publishCalls EXCEPT ![resolveDataSet(url)] = @ + 1]
    /\ UNCHANGED <<converters, calls, registerCalls>>

QueryPossibleMimeTypesForURL(url) ==
    /\ ret' = [op |-> "possibleMimeTypesForURL", url |-> url,
               val |-> possibleMimeTypesForURL(url)]
    /\ UNCHANGED <<converters, datasets, publishCalls, calls, registerCalls>>

QueryViewersForURL(url) ==
    /\ ret' = [op |-> "viewersForURL", url |-> url, val |-> viewersForURL(url)]
    /\ UNCHANGED <<converters, datasets, publishCalls, calls, registerCalls>>

----------------------------------------------------------------------------
(* Specifications *)

Next ==
    \/ \E u \in URLs : registerURL(u)
    \/ \E c \in Calls, u \in URLs, m \in MimeTypes : convertByURL(c, u, m)
    \/ \E c \in Calls, u \in URLs, l \in Labels : viewURL(c, u, l)
    \/ \E c \in Calls : ConvertBody(c)
    \/ \E c \in Calls : ConvertReturn(c)
    \/ \E c \in Calls : ViewInvoke(c)
    \/ \E c \in Calls : ViewFinish(c)
    \/ \E c \in Calls : ViewFails(c)

Spec == Init /\ [][Next]_vars

\* registerURL and convertByURL alone
NextConvert ==
    \/ \E u \in URLs : registerURL(u)
    \/ \E c \in Calls, u \in URLs, m \in MimeTypes : convertByURL(c, u, m)
    \/ \E c \in Calls : ConvertBody(c)
    \/ \E c \in Calls : ConvertReturn(c)

\* Every pending step of a started call is eventually run: the event loop
\* resumes a continuation whose promise has settled, and a conversion step
\* is a finite transform.
Fairness ==
    \A c \in Calls :
        /\ WF_vars(ConvertBody(c))
        /\ WF_vars(ConvertReturn(c))

LiveSpec == Init /\ [][NextConvert]_vars /\ Fairness

\* convertByURL called when no other call is pending
convertByURLAlone(c, url, targetMimeType) ==
    /\ \A k \in Calls : calls[k].pc \in {"idle", "done"}
    /\ convertByURL(c, url, targetMimeType)

\* calls made one after the other
NextSequential ==
    \/ \E u \in URLs : registerURL(u)
    \/ \E c \in Calls, u \in URLs, m \in MimeTypes : convertByURLAlone(c, u, m)
    \/ \E c \in Calls : ConvertBody(c)
    \/ \E c \in Calls : ConvertReturn(c)

SequentialSpec == Init /\ [][NextSequential]_vars

\* the targets of the calls whose collaborators may throw: one a single
\* step from the resolve mime type, one three steps from it
FaultyTargets == {"text/csv", createViewerMimeType("Table")}

\* calls whose collaborators may throw and whose caller may give up
NextFaulty ==
    \/ \E u \in URLs : registerURL(u)
    \/ \E c \in Calls, u \in URLs, m \in FaultyTargets : convertByURL(c, u, m)
    \/ \E c \in Calls : ConvertBody(c)
    \/ \E c \in Calls : ConvertReturn(c)
    \/ \E c \in Calls, u \in URLs, m \in FaultyTargets, e \in Errors :
            convertByURLThrows(c, u, m, e)
    \/ \E c \in Calls, e \in Errors : CollaboratorThrows(c, e)
    \/ \E c \in Calls : CloseReturns(c)
    \/ \E c \in Calls : Abandon(c)

FaultySpec == Init /\ [][NextFaulty]_vars

\* The queries read the converter registry and the dataset store and
\* nothing else; they are exercised on every registry and every store the
\* facade can be constructed with (config.converters, config.data).
\* the datasets a store can hold: those of MimeTypes, and viewer datasets
\* of every label
QueryDatasets ==
    AllDatasets \cup
        {Dataset(createViewerMimeType(l), u) : l \in Labels, u \in URLs}

QueryInit ==
    /\ converters \in SUBSET AllConverters
    /\ datasets \in SUBSET QueryDatasets
    /\ publishCalls = [d \in QueryDatasets |-> IF d \in datasets THEN 1 ELSE 0]
    /\ calls = [c \in Calls |-> IdleCall]
    /\ registerCalls = [u \in URLs |-> <<>>]
    /\ ret = NoQuery

NextQuery ==
    \/ \E u \in URLs : QueryHasConversions(u)
    \/ \E u \in URLs : QueryPossibleMimeTypesForURL(u)
    \/ \E u \in URLs : QueryViewersForURL(u)

QuerySpec == QueryInit /\ [][NextQuery]_vars

----------------------------------------------------------------------------
(* Properties *)

\* the datasets a call has taken from its sequence and run the loop body on
Consumed(c) == {calls[c].seq[i] : i \in 1..(calls[c].asked - 1)}

InFlight(c) == calls[c].pc \notin {"idle", "done"}

\* convertByURL of call c has returned (for viewURL: its inner convertByURL):
\* line 89 has run and given the call its result.  A call that failed or
\* was abandoned has not returned.
Converted(c) ==
    /\ calls[c].pc \in {"converted", "viewing", "done"}
    /\ calls[c].result # Pending

YieldedMimeTypes(c) == {calls[c].seq[i].mimeType : i \in 1..Len(calls[c].seq)}

\* C1: publish is never invoked on a dataset the store already contains:
\* whatever the interleaving of registerURL and convertByURL calls, every
\* dataset has been published at most once, and the store holds exactly the
\* datasets that were published once.
C1_PublishedAtMostOnce ==
    \A d \in AllDatasets :
        /\ publishCalls[d] <= 1
        /\ d \in datasets <=> publishCalls[d] = 1

\* two calls in flight at once have both consumed the same dataset; one of
\* them published it, the other found it in the store
C1_Witness ==
    \E c1 \in Calls, c2 \in Calls, d \in AllDatasets :
        /\ c1 # c2
        /\ InFlight(c1) /\ InFlight(c2)
        /\ d \in calls[c1].published
        /\ d \in Consumed(c2) /\ d \notin calls[c2].published
        /\ publishCalls[d] = 1

\* C2: within one call, when the converter graph has been asked for step
\* i+1, the datasets of steps 1..i are all in the store (published by this
\* call or found already present).
C2_PublishedBeforeNextStep ==
    \A c \in Calls :
        \A i \in 1..Len(calls[c].seq) :
            i < calls[c].asked => contains(calls[c].seq[i])

\* a call is waiting for its third step, having published the first two
C2_Witness ==
    \E c \in Calls :
        /\ calls[c].pc = "next"
        /\ calls[c].asked = 3
        /\ Len(calls[c].seq) = 3
        /\ Cardinality(calls[c].published) = 2

\* C3: once convertByURL(u, t) has returned, every dataset its sequence
\* produced is in the store and mimeTypesForURL(u) includes every mime type
\* on the chain from the seed type to t.
C3_ChainPublished ==
    \A c \in Calls :
        Converted(c) =>
            /\ \A i \in 1..Len(calls[c].seq) : contains(calls[c].seq[i])
            /\ \A i \in 1..Len(calls[c].chain) :
                   calls[c].chain[i] \in mimeTypesForURL(calls[c].url)

\* a conversion of three steps has returned, and it published all three
C3_Witness ==
    \E c \in Calls :
        /\ calls[c].kind = "convert"
        /\ calls[c].pc = "done"
        /\ Len(calls[c].chain) = 4
        /\ Cardinality(calls[c].published) = 3

\* C4: a convertByURL(u, t) started with t in possibleMimeTypesForURL(u)
\* eventually returns, raises no error, and returns a dataset of mime type t.
C4_ReachableTargetConverted ==
    \A c \in Calls :
        (calls[c].pc # "idle" /\ calls[c].reachable)
            ~> (/\ Converted(c)
                /\ calls[c].error # "UnreachableTarget"
                /\ calls[c].result.mimeType = calls[c].target)

\* a reachable target two or more steps away has been returned
C4_Witness ==
    \E c \in Calls :
        /\ calls[c].kind = "convert"
        /\ calls[c].reachable
        /\ Len(calls[c].seq) >= 2
        /\ calls[c].pc = "done"
        /\ calls[c].outcome = "returned"
        /\ calls[c].result.mimeType = calls[c].target

\* C5: when the sequence of a convertByURL(u, t) call ends without having
\* produced a dataset of mime type t, the call fails with UnreachableTarget
\* and does not return a result.
C5_UnreachableTargetRaised ==
    \A c \in Calls :
        (/\ calls[c].kind = "convert"
         /\ calls[c].pc = "done"
         /\ calls[c].target \notin YieldedMimeTypes(c))
            => (/\ calls[c].outcome = "raised"
                /\ calls[c].error = "UnreachableTarget"
                /\ calls[c].result = Pending)

\* C6: viewURL(u, l) with the viewer mime type of l unreachable from u
\* raises UnreachableTarget, publishes nothing and invokes no accessor.
C6_UnreachableViewerRaised ==
    \A c \in Calls :
        (/\ calls[c].kind = "view"
         /\ calls[c].pc = "done"
         /\ ~calls[c].reachable)
            => (/\ calls[c].outcome = "raised"
                /\ calls[c].error = "UnreachableTarget"
                /\ calls[c].published = {}
                /\ calls[c].accessor = 0)

\* C7: after one or more registerURL(u) calls the dataset resolved from u
\* has been published exactly once; the first call returned a handle and
\* every later call returned null.
C7_RegisterIdempotent ==
    \A u \in URLs :
        Len(registerCalls[u]) >= 1 =>
            /\ contains(resolveDataSet(u))
            /\ publishCalls[resolveDataSet(u)] = 1
            /\ registerCalls[u][1] = "handle"
            /\ \A i \in 2..Len(registerCalls[u]) : registerCalls[u][i] = "null"

\* registerURL was called twice for a URL
C7_Witness ==
    \E u \in URLs :
        /\ Len(registerCalls[u]) = 2
        /\ registerCalls[u][2] = "null"
        /\ publishCalls[resolveDataSet(u)] = 1

\* C8: a step of hasConversions, possibleMimeTypesForURL or viewersForURL,
\* for any URL and in any state, leaves the dataset store, the converter
\* registry and every call unchanged.
C8_QueriesArePure ==
    [][ (\E u \in URLs : \/ QueryHasConversions(u)
                         \/ QueryPossibleMimeTypesForURL(u)
                         \/ QueryViewersForURL(u))
            => UNCHANGED <<converters, datasets, publishCalls, calls,
                           registerCalls>> ]_vars

\* a query has answered for a URL the store holds nothing for, while the
\* store holds datasets of the other URL
C8_Witness ==
    /\ ret.op = "possibleMimeTypesForURL"
    /\ filterByURL(ret.url) = {}
    /\ datasets # {}

\* C9: what hasConversions(u) returned is whether the closure of the single
\* seed resolveMimeType has more than one element; it does not depend on
\* the datasets the store holds for u, then or later.
C9_HasConversionsFromResolveType ==
    ret.op = "hasConversions" =>
        ret.val = (Cardinality(listTargetMimeTypes(ret.url, {resolveMimeType})) > 1)

\* hasConversions answered true for a URL the store holds nothing for,
\* and false for a URL that the store holds convertible datasets for
C9_Witness ==
    /\ ret.op = "hasConversions"
    /\ \/ ret.val = TRUE /\ mimeTypesForURL(ret.url) = {}
       \/ ret.val = FALSE /\ Cardinality(possibleMimeTypesForURL(ret.url)) > 1

\* C10: no step removes a dataset from the store: for every URL u,
\* mimeTypesForURL(u) after a step includes mimeTypesForURL(u) before it.
C10_MimeTypesGrow ==
    [][ /\ datasets \subseteq datasets'
        /\ \A u \in URLs : mimeTypesForURL(u) \subseteq mimeTypesForURL(u)' ]_vars

\* conversions have grown the mime types of a URL from one to four
C10_Witness ==
    \E u \in URLs :
        /\ Cardinality(mimeTypesForURL(u)) = 4
        /\ \E c \in Calls : calls[c].pc = "done" /\ calls[c].url = u

\* C11: what possibleMimeTypesForURL(u) returns includes every mime type
\* the store holds for u, on every store and converter registry.
C11_PossibleIncludesRegistered ==
    ret.op = "possibleMimeTypesForURL" =>
        mimeTypesForURL(ret.url) \subseteq ret.val

\* the answer holds two registered mime types, none of them the resolve
\* mime type, and a further one that is only reachable
C11_Witness ==
    /\ ret.op = "possibleMimeTypesForURL"
    /\ Cardinality(mimeTypesForURL(ret.url)) = 2
    /\ resolveMimeType \notin mimeTypesForURL(ret.url)
    /\ ret.val # mimeTypesForURL(ret.url)

\* C12: when convertByURL has returned, its sequence has been consumed to
\* the end, and the dataset returned is the last one the sequence produced.
C12_ReturnsLastDataset ==
    \A c \in Calls :
        Converted(c) =>
            /\ calls[c].asked = Len(calls[c].seq) + 1
            /\ Len(calls[c].seq) >= 1 =>
                   calls[c].result = calls[c].seq[Len(calls[c].seq)]

\* a call has returned the third of three datasets
C12_Witness ==
    \E c \in Calls :
        /\ calls[c].pc = "done"
        /\ Len(calls[c].seq) = 3
        /\ calls[c].result = calls[c].seq[3]
        /\ calls[c].result # calls[c].seq[1]

\* C14: a convertByURL(u, t) started while the store holds a dataset of
\* mime type t for u returns that dataset, not undefined, and publishes
\* nothing.
C14_RegisteredTargetReturned ==
    \A c \in Calls :
        Len(calls[c].chain) = 1 =>
            /\ calls[c].published = {}
            /\ Converted(c) =>
                   /\ calls[c].result = Dataset(calls[c].target, calls[c].url)
                   /\ calls[c].result # Undefined
                   /\ contains(calls[c].result)

\* a conversion to a mime type that an earlier conversion had published
\* has returned
C14_Witness ==
    \E c \in Calls :
        /\ calls[c].kind = "convert"
        /\ calls[c].pc = "done"
        /\ Len(calls[c].chain) = 1
        /\ calls[c].target = "application/json"
        /\ calls[c].result.mimeType = "application/json"

\* C16: a registerURL(u) step publishes the dataset resolved from u when the
\* store does not contain it and leaves the store unchanged when it does;
\* it changes no other dataset, no call and no converter.
C16_RegisterPublishesOneDataset ==
    [][ \A u \in URLs :
          registerURL(u) =>
            /\ datasets' = IF contains(resolveDataSet(u)) THEN datasets
                           ELSE datasets \cup {resolveDataSet(u)}
            /\ \A d \in AllDatasets \ {resolveDataSet(u)} :
                   publishCalls'[d] = publishCalls[d]
            /\ UNCHANGED <<converters, calls>> ]_vars

\* a URL has been registered, with effect, while a conversion of the other
\* URL was in flight and its datasets in the store
C16_Witness ==
    \E u \in URLs, c \in Calls :
        /\ registerCalls[u] = <<"handle">>
        /\ calls[c].url # u
        /\ calls[c].published # {}
        /\ mimeTypesForURL(u) = {resolveMimeType}

\* C17: viewURL invokes the accessor of the dataset convertByURL returned at
\* most once, and only when the conversion has returned with all its
\* datasets in the store; viewURL returns, or fails with what the accessor
\* threw, only when the accessor, invoked once, has finished.
C17_AccessorAfterConversion ==
    \A c \in Calls :
        calls[c].kind = "view" =>
            /\ calls[c].accessor <= 1
            /\ calls[c].accessorDone <= calls[c].accessor
            /\ calls[c].accessor = 1 =>
                   /\ Converted(c)
                   /\ calls[c].result.mimeType = calls[c].target
                   /\ \A i \in 1..Len(calls[c].seq) : contains(calls[c].seq[i])
            /\ (calls[c].outcome = "returned" \/ calls[c].error = ViewerError) =>
                   calls[c].accessor = 1 /\ calls[c].accessorDone = 1

\* a viewURL whose conversion took three steps has returned
C17_Witness ==
    \E c \in Calls :
        /\ calls[c].kind = "view"
        /\ calls[c].outcome = "returned"
        /\ Cardinality(calls[c].published) = 3
        /\ calls[c].accessorDone = 1

\* C13: a convertByURL(u, t) made after a convertByURL(u, t) that returned a
\* dataset publishes nothing and returns the same dataset.
C13_RepeatedConversion ==
    \A c1 \in Calls, c2 \in Calls :
        (/\ c1 < c2
         /\ calls[c2].pc # "idle"
         /\ calls[c2].url = calls[c1].url
         /\ calls[c2].target = calls[c1].target
         /\ calls[c1].result # Undefined)
            => (/\ calls[c2].published = {}
                /\ Converted(c2) => calls[c2].result = calls[c1].result)

\* a conversion of three steps has been repeated
C13_Witness ==
    \E c1 \in Calls, c2 \in Calls :
        /\ c1 < c2
        /\ calls[c1].pc = "done" /\ calls[c2].pc = "done"
        /\ calls[c2].url = calls[c1].url
        /\ calls[c2].target = calls[c1].target
        /\ Cardinality(calls[c1].published) = 3
        /\ calls[c2].published = {}
        /\ calls[c2].result = calls[c1].result

\* C15: a call whose converter graph or store threw has no result, does
\* not return and invokes no accessor; when it has failed, it has failed
\* with the error thrown; what a failed or abandoned call had published is
\* still in the store; and after the throw, or once abandoned, the call
\* takes no further step of its loop (no retry) and, once ended, no step
\* at all.
C15_ErrorsPropagate ==
    /\ [](\A c \in Calls :
            /\ calls[c].thrown \in Errors =>
                   /\ calls[c].result = Pending
                   /\ calls[c].outcome # "returned"
                   /\ calls[c].accessor = 0
            /\ (calls[c].thrown # "none" /\ calls[c].outcome = "raised") =>
                   calls[c].error = calls[c].thrown
            /\ (calls[c].thrown # "none" \/ calls[c].outcome = "abandoned") =>
                   /\ calls[c].published \subseteq datasets
                   /\ Consumed(c) \subseteq datasets)
    /\ [][ \A c \in Calls :
             (calls[c].thrown # "none" \/ calls[c].outcome = "abandoned") =>
                 /\ calls'[c].asked = calls[c].asked
                 /\ calls'[c].published = calls[c].published
                 /\ calls'[c].finalDataSet = calls[c].finalDataSet
                 /\ calls'[c].thrown = calls[c].thrown
                 /\ calls'[c].result = calls[c].result
                 /\ calls[c].pc = "done" => calls'[c] = calls[c]
                 /\ calls[c].published \subseteq datasets' ]_vars

\* the store threw at the third element of a call that had published two
\* datasets; while the call was closing its sequence another call
\* published that third dataset; then the first call failed
C15_Witness ==
    \E c \in Calls, k \in Calls :
        /\ calls[c].thrown = "StoreUnavailable"
        /\ calls[c].outcome = "raised"
        /\ calls[c].asked = 3
        /\ Cardinality(calls[c].published) = 2
        /\ c < k
        /\ calls[k].pc = "done"
        /\ calls[c].finalDataSet \in calls[k].published

\* C18: what viewersForURL(u) returns is exactly the labels whose viewer
\* mime type is in possibleMimeTypesForURL(u); mime types that encode no
\* label contribute nothing.
C18_ViewersAreReachableLabels ==
    ret.op = "viewersForURL" =>
        /\ ret.val = {l \in Labels :
                        createViewerMimeType(l) \in possibleMimeTypesForURL(ret.url)}
        /\ Null \notin ret.val

\* two labels were returned for a URL that also has mime types that are no
\* viewers
C18_Witness ==
    /\ ret.op = "viewersForURL"
    /\ ret.val = Labels
    /\ "text/csv" \in possibleMimeTypesForURL(ret.url)
    /\ Cardinality(possibleMimeTypesForURL(ret.url)) > Cardinality(ret.val)

\* C19: for a URL the store holds nothing for, possibleMimeTypesForURL and
\* viewersForURL return the empty set and hasConversions returns a boolean.
C19_UnknownURLIsEmpty ==
    filterByURL(ret.url) = {} =>
        /\ ret.op = "possibleMimeTypesForURL" => ret.val = {}
        /\ ret.op = "viewersForURL" => ret.val = {}
        /\ ret.op = "hasConversions" => ret.val \in BOOLEAN

\* a query answered with the empty set for an unknown URL, with every
\* converter registered and viewers of the other URL in the store
C19_Witness ==
    /\ ret.op = "viewersForURL"
    /\ filterByURL(ret.url) = {}
    /\ ret.val = {}
    /\ converters = AllConverters
    /\ \E d \in datasets : extractViewerLabel(d.mimeType) # Null

\* the mime types of a call's conversion chain
ChainMimeTypes(c) == {calls[c].chain[i] : i \in 1..Len(calls[c].chain)}

\* C20: when two convertByURL(u, t) calls with t reachable have both
\* returned, each has consumed its own sequence to the end and returned a
\* dataset of mime type t, and (no other call being made for u) the mime
\* types of u are those of the chain of the call made first, as after that
\* call alone.
C20_ConcurrentConversions ==
    \A c1 \in Calls, c2 \in Calls :
        (/\ c1 < c2
         /\ calls[c1].kind = "convert" /\ calls[c2].kind = "convert"
         /\ calls[c1].url = calls[c2].url
         /\ calls[c1].target = calls[c2].target
         /\ calls[c1].reachable /\ calls[c2].reachable
         /\ calls[c1].pc = "done" /\ calls[c2].pc = "done")
            => (/\ \A c \in {c1, c2} :
                       /\ calls[c].asked = Len(calls[c].seq) + 1
                       /\ calls[c].result.mimeType = calls[c].target
                /\ (\A k \in Calls \ {c1, c2} : calls[k].url # calls[c1].url)
                       => mimeTypesForURL(calls[c1].url) = ChainMimeTypes(c1))

\* two calls for the same target three steps away ran interleaved: each
\* traversed all three steps and each published part of the chain
C20_Witness ==
    \E c1 \in Calls, c2 \in Calls :
        /\ c1 < c2
        /\ calls[c1].kind = "convert" /\ calls[c2].kind = "convert"
        /\ calls[c1].url = calls[c2].url
        /\ calls[c1].target = calls[c2].target
        /\ calls[c1].pc = "done" /\ calls[c2].pc = "done"
        /\ Len(calls[c1].seq) = 3 /\ Len(calls[c2].seq) = 3
        /\ calls[c1].published # {} /\ calls[c2].published # {}
        /\ calls[c1].result = calls[c2].result

====
